---- MODULE Spec2Model ----
(***************************************************************************)
(* A model of robosat_pink/tools/rasterize.py (the rasterize tool: the     *)
(* PostGIS WKB raster decoder and the GeoJSON / PostGIS tile pipelines) and *)
(* of robosat_pink/logs.py (the log sink).                                 *)
(*                                                                         *)
(* Two specifications:                                                     *)
(*   SpecWkb : wkb_to_numpy run band by band on a bounded family of byte   *)
(*             streams;                                                    *)
(*   Spec    : main(args), GeoJSON path and PostGIS path.                  *)
(***************************************************************************)
EXTENDS Integers, Sequences, FiniteSets, TLC

VARIABLES
    \* ---- wkb_to_numpy run on its own (SpecWkb)
    wkb,          \* the argument of wkb_to_numpy
    dec,          \* the decoder's locals (endian, bands, width, height, band, out, ...)
    wpc,          \* position in wkb_to_numpy: "call", "loop", "done"
    \* ---- main (Spec)
    args,         \* args.geojson / args.postgis / args.zoom / cover file content
    pc,           \* position in main
    feature_map,  \* collections.defaultdict(list): Tile -> list of features
    epsg,         \* the local variable epsg of main
    nfiles,       \* GeoJSON files opened so far
    nfeatures,    \* features read so far
    i,            \* index (1-based) of the next cover tile of the running tile loop
    raster,       \* the local variable raster / out of the tile loop
    pg,           \* state of the connection behind pg_conn / pg
    written,      \* the calls of write_tile so far: <<[tile, out]>>
    log,          \* the lines Logs.log wrote
    exitmsg,      \* what ended the run early: the message of sys.exit, or the
                  \* exception nothing caught; "" otherwise
    hist          \* what happened to each processed input (history, not program state)

wkbvars  == <<wkb, dec, wpc>>
mainvars == <<args, pc, feature_map, epsg, nfiles, nfeatures, i, raster, pg, written, log,
              exitmsg, hist>>
vars     == <<wkb, dec, wpc, args, pc, feature_map, epsg, nfiles, nfeatures, i, raster, pg,
              written, log, exitmsg, hist>>

Min(a, b) == IF a < b THEN a ELSE b

(***************************************************************************)
(* numpy arrays, as far as the tool uses them.  An array is a record       *)
(* [kind, shape, dtype, px]; px holds the elements: for a 2-D array the    *)
(* row-major sequence of its elements, for the decoder's 3-D array         *)
(* (height, width, bands) one such sequence per band.                      *)
(***************************************************************************)
None == [kind |-> "None", shape |-> <<>>, dtype |-> "", px |-> <<>>]

\* np.zeros(shape=(h, w), dtype=dtype)
Zeros2(h, w, dtype) ==
    [kind |-> "ndarray", shape |-> <<h, w>>, dtype |-> dtype, px |-> [k \in 1..(h * w) |-> 0]]

\* np.zeros((height, width, bands), dtype=dtype)
Zeros3(h, w, b, dtype) ==
    [kind |-> "ndarray", shape |-> <<h, w, b>>, dtype |-> dtype,
     px |-> [n \in 1..b |-> [k \in 1..(h * w) |-> 0]]]

IsZeros(a, size) ==
    /\ a.kind = "ndarray"
    /\ a.shape = <<size, size>>
    /\ \A k \in 1..Len(a.px) : a.px[k] = 0

(***************************************************************************)
(* struct.unpack and the byte stream                                       *)
(***************************************************************************)
\* io.BytesIO.read(n) at position pos (1-based): at most n bytes, fewer at the end
Read(buf, pos, n) == SubSeq(buf, pos, Min(pos + n - 1, Len(buf)))

\* struct format "b": one signed byte
Signed8(b) == IF b >= 128 THEN b - 256 ELSE b

\* struct format "H" / "I" under byte order endian ("<" or ">")
RECURSIVE UnpackLE(_)
UnpackLE(bs) == IF bs = <<>> THEN 0 ELSE Head(bs) + 256 * UnpackLE(Tail(bs))

RECURSIVE UnpackBE(_)
UnpackBE(bs) == IF bs = <<>> THEN 0 ELSE UnpackBE(SubSeq(bs, 1, Len(bs) - 1)) * 256 + bs[Len(bs)]

Unpack(endian, bs) == IF endian = ">" THEN UnpackBE(bs) ELSE UnpackLE(bs)

\* Python's bits & 15 and bits & 128 on a signed byte (two's complement)
And15(bits)  == (bits + 256) % 16
And128(bits) == IF bits < 0 THEN 128 ELSE 0

\* Python's == between the tuple struct.unpack returns and an int: never equal
TupleEqualsInt(t, n) == FALSE

\* line 86: ">" if struct.unpack("<b", wkb.read(1)) == 0 else "<"
Endian(flag) == IF TupleEqualsInt(<<Signed8(flag)>>, 0) THEN ">" ELSE "<"

\* lines 97-98: the two tables indexed by bits & 15 (0-based in the code)
PixSize  == <<1, 1, 1, 1, 1, 2, 2, 4, 4, 4, 8>>
PixDtype == <<"b1", "u1", "u1", "i1", "u1", "i2", "u2", "i4", "u4", "f4", "f8">>

\* np.ndarray(buffer=..., dtype=dtype): one element from its bytes, in the
\* machine's byte order (little-endian); a float is kept as its bit pattern
PixelValue(dtype, bs) ==
    LET u == UnpackLE(bs) IN
    CASE dtype = "b1" -> IF u = 0 THEN 0 ELSE 1
      [] dtype \in {"i1", "i2", "i4"} ->
            IF 2 * u >= 256 ^ Len(bs) THEN u - 256 ^ Len(bs) ELSE u
      [] OTHER -> u

(***************************************************************************)
(* wkb_to_numpy (lines 74-110).  Its argument is None or a byte stream;    *)
(* the locals are kept in a record so that the function can be run one     *)
(* loop iteration at a time.  status: "run" (inside the function),         *)
(* "return" (value in out), "raise" (an ordinary exception, exc names its  *)
(* type), "exit" (sys.exit: SystemExit, exc holds the message).            *)
(***************************************************************************)
NoStream   == [isNone |-> TRUE, bytes |-> <<>>]
Stream(bs) == [isNone |-> FALSE, bytes |-> bs]

\* line 83: "not wkb".  None is falsy; an io.BytesIO object defines neither
\* __bool__ nor __len__ and is truthy whatever it holds.
Falsy(w) == w.isNone

DecLocals(w) ==
    [status |-> "run", exc |-> "", buf |-> w.bytes, pos |-> 1, endian |-> "",
     bands |-> 0, width |-> 0, height |-> 0, band |-> 0, pixtype |-> -1, out |-> None]

Raise(st, e)  == [st EXCEPT !.status = "raise", !.exc = e, !.out = None]
SysExit(st, m) == [st EXCEPT !.status = "exit", !.exc = m, !.out = None]

\* lines 81-89: the guard, the endianness byte and the 60-byte header
\* "HHddddddIHH": version 0-1, bands 2-3, six doubles 4-51, srid 52-55,
\* width 56-57, height 58-59 (offsets in the header)
DecEnter(w) ==
    LET st == DecLocals(w)
        b1 == Read(st.buf, 1, 1)
        hd == Read(st.buf, 2, 60)
        en == Endian(b1[1])
    IN  IF Falsy(w) THEN [st EXCEPT !.status = "return"]
        ELSE IF Len(b1) < 1 THEN Raise(st, "struct.error")
        ELSE IF Len(hd) < 60 THEN Raise([st EXCEPT !.endian = en, !.pos = 2], "struct.error")
        ELSE [st EXCEPT !.endian = en,
                        !.pos    = 62,
                        !.bands  = Unpack(en, SubSeq(hd, 3, 4)),
                        !.width  = Unpack(en, SubSeq(hd, 57, 58)),
                        !.height = Unpack(en, SubSeq(hd, 59, 60))]

\* lines 93-108: one iteration of "for band in range(bands)"
DecBand(st) ==
    LET fb   == Read(st.buf, st.pos, 1)
        bits == Signed8(fb[1])
        code == And15(bits)
        size == PixSize[code + 1]
        dt   == PixDtype[code + 1]
        p1   == st.pos + 1
        p2   == Min(p1 + size, Len(st.buf) + 1)
        n    == st.width * st.height * size
        data == Read(st.buf, p2, n)
        vals == [k \in 1..(st.width * st.height) |->
                    PixelValue(dt, SubSeq(data, (k - 1) * size + 1, k * size))]
        base == IF st.band = 0 THEN Zeros3(st.height, st.width, st.bands, dt) ELSE st.out
    IN  IF Len(fb) < 1 THEN Raise(st, "struct.error")
        ELSE IF And128(bits) # 0
            THEN SysExit(st, "OffLine PostGIS WKB Data not supported.")
        ELSE IF code + 1 > Len(PixSize) THEN Raise(st, "IndexError")
        ELSE IF st.band # 0 /\ st.pixtype # code
            THEN SysExit(st, "Mixed PostGIS WBK Data type not supported.")
        ELSE IF Len(data) < n THEN Raise(st, "TypeError")
        ELSE [st EXCEPT !.pos     = p2 + n,
                        !.pixtype = code,
                        !.out     = [base EXCEPT !.px[st.band + 1] = vals],
                        !.band    = st.band + 1]

\* line 91 and line 110: the loop runs while band < bands, then "return out"
DecLooping(st) == st.status = "run" /\ st.band < st.bands
DecReturn(st)  == [st EXCEPT !.status = "return"]

RECURSIVE DecRun(_)
DecRun(st) ==
    IF st.status # "run" THEN st
    ELSE IF DecLooping(st) THEN DecRun(DecBand(st))
    ELSE DecReturn(st)

wkb_to_numpy(w) == DecRun(DecEnter(w))

(***************************************************************************)
(* The byte streams wkb_to_numpy is run on: PostGIS WKB rasters written in  *)
(* byte order enc, with the endianness byte flag, and damaged ones.        *)
(***************************************************************************)
MaxBands  == 2
MaxWidth  == 2
MaxHeight == 1

Pack16(enc, v) == IF enc = ">" THEN <<v \div 256, v % 256>> ELSE <<v % 256, v \div 256>>
Pack32(enc, v) == IF enc = ">" THEN <<0, 0>> \o Pack16(enc, v) ELSE Pack16(enc, v) \o <<0, 0>>

Fill(n, b) == [k \in 1..n |-> b]

WkbHeader(flag, enc, bands, w, h) ==
    <<flag>> \o Pack16(enc, 0) \o Pack16(enc, bands) \o Fill(48, 0)
             \o Pack32(enc, 3857) \o Pack16(enc, w) \o Pack16(enc, h)

\* one band: flag byte, no-data value, w*h elements whose bytes are all b
WkbBand(fb, w, h, b) ==
    LET code == fb % 16
        size == IF code + 1 > Len(PixSize) THEN 1 ELSE PixSize[code + 1]
    IN  <<fb>> \o Fill(size, 0) \o Fill(w * h * size, b)

RECURSIVE WkbBands(_, _, _, _)
WkbBands(fbs, w, h, b) ==
    IF fbs = <<>> THEN <<>> ELSE WkbBand(Head(fbs), w, h, b) \o WkbBands(Tail(fbs), w, h, b)

WkbRaster(flag, enc, fbs, w, h, b) ==
    WkbHeader(flag, enc, Len(fbs), w, h) \o WkbBands(fbs, w, h, b)

\* band flag bytes: 8BUI, 16BSI, 8BUI with the has-no-data bit, the unassigned
\* pixel type 12, and 8BUI stored out of line (bit 7)
BandFlags == {4, 5, 68, 12, 132}

BandFlagSeqs == UNION {[1..n -> BandFlags] : n \in 0..MaxBands}

WkbInputs ==
    {NoStream, Stream(<<>>), Stream(<<1>>), Stream(<<0, 0, 0>>)}
    \cup {Stream(SubSeq(r, 1, Len(r) - cut)) :
            r \in {WkbRaster(flag, enc, fbs, w, h, b) :
                     flag \in {0, 1}, enc \in {"<", ">"}, fbs \in BandFlagSeqs,
                     w \in 1..MaxWidth, h \in 1..MaxHeight, b \in {0, 1}},
            cut \in {0, 1}}

(***************************************************************************)
(* main is idle while wkb_to_numpy is run on its own, and conversely.      *)
(***************************************************************************)
NoTile == [z |-> -1, x |-> -1, y |-> -1]
NoArgs == [geojson |-> <<>>, postgis |-> FALSE, zoom |-> 0, cover |-> <<>>]
NoHist == [feats |-> <<>>, src |-> <<>>, tiles |-> <<>>]

MainIdle ==
    /\ args = NoArgs /\ pc = "idle" /\ feature_map = <<>> /\ epsg = 0
    /\ nfiles = 0 /\ nfeatures = 0 /\ i = 0 /\ raster = None /\ pg = "none"
    /\ written = <<>> /\ log = <<>> /\ exitmsg = "" /\ hist = NoHist

WkbIdle == wkb = NoStream /\ dec = DecLocals(NoStream) /\ wpc = "idle"

InitWkb ==
    /\ wkb \in WkbInputs
    /\ dec = DecLocals(wkb)
    /\ wpc = "call"
    /\ MainIdle

\* lines 81-89
WkbEnter ==
    /\ wpc = "call"
    /\ dec' = DecEnter(wkb)
    /\ wpc' = IF dec'.status = "run" THEN "loop" ELSE "done"
    /\ UNCHANGED <<wkb, mainvars>>

\* lines 91-108, one band
WkbLoop ==
    /\ wpc = "loop"
    /\ DecLooping(dec)
    /\ dec' = DecBand(dec)
    /\ wpc' = IF dec'.status = "run" THEN "loop" ELSE "done"
    /\ UNCHANGED <<wkb, mainvars>>

\* line 110
WkbReturn ==
    /\ wpc = "loop"
    /\ ~DecLooping(dec)
    /\ dec' = DecReturn(dec)
    /\ wpc' = "done"
    /\ UNCHANGED <<wkb, mainvars>>

NextWkb == WkbEnter \/ WkbLoop \/ WkbReturn

SpecWkb == InitWkb /\ [][NextWkb]_vars

(***************************************************************************)
(* main: tiles, geometries and the GeoJSON spatial index (lines 138-182)   *)
(***************************************************************************)
\* mercantile.Tile(x, y, z)
Tile(z, x, y) == [z |-> z, x |-> x, y |-> y]

\* geometries as GeoJSON gives them: type, coordinates, geometries.  A point
\* is <<x, y>> or <<x, y, elevation>>; x and y are counted in tiles of the
\* zoom level in use.
Geometry(t, c, g) == [type |-> t, coordinates |-> c, geometries |-> g]
Polygon(c)        == Geometry("Polygon", c, <<>>)

\* lines 141-142: every point of every ring cut down to [x, y]
Normalize(coords) ==
    [r \in 1..Len(coords) |-> [k \in 1..Len(coords[r]) |-> <<coords[r][k][1], coords[r][k][2]>>]]

\* burntiles.burn(polygon, zoom), called at line 144: the tiles of the zoom
\* level the polygon touches, here the tiles of its vertices.  A polygon
\* without any ring stands for the ones the primitive rejects (ValueError).
BurnRaises(polygon) == polygon.coordinates = <<>>
Burn(polygon, zoom) ==
    UNION {{Tile(zoom, polygon.coordinates[r][k][1], polygon.coordinates[r][k][2]) :
                k \in 1..Len(polygon.coordinates[r])} : r \in 1..Len(polygon.coordinates)}

\* the order in which the tiles burn yields are visited
RECURSIVE SetToSeq(_)
SetToSeq(S) ==
    IF S = {} THEN <<>>
    ELSE LET m == CHOOSE t \in S : \A u \in S : t.x < u.x \/ (t.x = u.x /\ t.y <= u.y)
         IN  <<m>> \o SetToSeq(S \ {m})

\* feature_map[tile].append(feature) on a collections.defaultdict(list)
DictAppend(fm, key, v) ==
    [k \in DOMAIN fm \cup {key} |->
        IF k = key THEN (IF k \in DOMAIN fm THEN Append(fm[k], v) ELSE <<v>>) ELSE fm[k]]

RECURSIVE AppendAll(_, _, _)
AppendAll(fm, keys, v) ==
    IF keys = <<>> THEN fm ELSE AppendAll(DictAppend(fm, Head(keys), v), Tail(keys), v)

Feature(polygon) == [type |-> "feature", geometry |-> polygon]

LogLine(msg, type, tile, n) == [msg |-> msg, type |-> type, tile |-> tile, i |-> n]

\* The spatial index under construction: the feature map, the lines logged,
\* and (history) for each entry of the map the EPSG code of the file it came
\* from; zoom is args.zoom and cur the EPSG code of the file being read.
\* lines 138-150.  The loop at line 141 rebinds i to the ring index, which is
\* what the warning then prints.
geojson_parse_polygon(s, polygon, n) ==
    LET norm == [polygon EXCEPT !.coordinates = Normalize(polygon.coordinates)]
        ilog == IF Len(polygon.coordinates) > 0 THEN Len(polygon.coordinates) - 1 ELSE n
        keys == SetToSeq(Burn(norm, s.zoom))
    IN  IF BurnRaises(norm)
        THEN [s EXCEPT !.log = Append(s.log, LogLine("Warning: invalid feature, skipping",
                                                     "", NoTile, ilog))]
        ELSE [s EXCEPT !.fm  = AppendAll(s.fm, keys, Feature(norm)),
                       !.src = AppendAll(s.src, keys, s.cur)]

RECURSIVE ParsePolygons(_, _, _)
ParsePolygons(s, polygons, n) ==
    IF polygons = <<>> THEN s
    ELSE ParsePolygons(geojson_parse_polygon(s, Polygon(Head(polygons)), n), Tail(polygons), n)

\* lines 152-163
geojson_parse_geometry(s, geometry, n) ==
    IF geometry.type = "Polygon" THEN geojson_parse_polygon(s, geometry, n)
    ELSE IF geometry.type = "MultiPolygon" THEN ParsePolygons(s, geometry.coordinates, n)
    ELSE [s EXCEPT !.log = Append(s.log, LogLine("Notice: non surfacic geometry type, skipping feature",
                                                 geometry.type, NoTile, n))]

RECURSIVE ParseGeometries(_, _, _)
ParseGeometries(s, geometries, n) ==
    IF geometries = <<>> THEN s
    ELSE ParseGeometries(geojson_parse_geometry(s, Head(geometries), n), Tail(geometries), n)

\* lines 178-182: the body of the loop over the features of a file
ParseFeature(s, geometry, n) ==
    IF geometry.type = "GeometryCollection"
    THEN ParseGeometries(s, geometry.geometries, n)
    ELSE geojson_parse_geometry(s, geometry, n)

(***************************************************************************)
(* geojson_to_mercator and geojson_tile_burn (lines 51-71).  The           *)
(* reprojection and the rasterization are the libraries'; their results    *)
(* are kept as the calls made: which coordinates, from which EPSG code.    *)
(***************************************************************************)
geojson_to_mercator(feature, e) ==
    IF feature.geometry.type = "Polygon"
    THEN <<[type |-> "Polygon", coordinates |-> feature.geometry.coordinates,
            from_epsg |-> e, to_epsg |-> 3857]>>
    ELSE <<>>

RECURSIVE Shapes(_, _, _)
Shapes(features, burn_value, e) ==
    IF features = <<>> THEN <<>>
    ELSE [g \in 1..Len(geojson_to_mercator(Head(features), e)) |->
             [geometry |-> geojson_to_mercator(Head(features), e)[g], value |-> burn_value]]
         \o Shapes(Tail(features), burn_value, e)

geojson_tile_burn(tile, features, tile_size, burn_value, e) ==
    [kind |-> "rasterize", shape |-> <<tile_size, tile_size>>, dtype |-> "u1",
     px |-> [shapes |-> Shapes(features, burn_value, e), bounds |-> tile]]

(***************************************************************************)
(* main: the inputs                                                        *)
(***************************************************************************)
MaxCover    == 2
MaxFeatures == 2
TileSize    == 2
BurnValue   == 1
DefaultEpsg == 4326

Zooms      == {1, 2}
CoverTiles == {Tile(1, 0, 0), Tile(1, 1, 0), Tile(2, 0, 0)}
Covers     == UNION {[1..n -> CoverTiles] : n \in 0..MaxCover}

\* the GeoJSON files of the command line, each with the EPSG code its
\* collection declares (feature_collection.crs, line 175)
FileA == [path |-> "a.geojson", epsg |-> 2154]
FileB == [path |-> "b.geojson", epsg |-> 4326]
GeojsonArgs == {<<>>, <<FileA>>, <<FileA, FileB>>}

PolyA == Polygon(<< << <<0, 0>>, <<0, 0, 7>>, <<0, 0>> >> >>)
PolyB == Polygon(<< << <<0, 0>>, <<1, 0>>, <<0, 0>> >> >>)
Geometries ==
    << PolyA,
       Geometry("MultiPolygon", <<PolyB.coordinates, <<>>, PolyA.coordinates>>, <<>>),
       Geometry("GeometryCollection", <<>>, <<PolyB, Geometry("MultiLineString", <<>>, <<>>)>>),
       Geometry("GeometryCollection", <<>>,
                <<Geometry("GeometryCollection", <<>>, <<PolyA>>)>>) >>

\* "if args.geojson": a list is truthy when it is not empty
Given(files) == files # <<>>

\* --zoom is required with --geojson (line 40) and read by the GeoJSON path
\* only; without --geojson it is left out (None)
NoZoom == 0

Init ==
    /\ args \in [geojson : GeojsonArgs, postgis : BOOLEAN, zoom : Zooms \cup {NoZoom},
                 cover : Covers]
    /\ args.zoom = NoZoom <=> ~Given(args.geojson)
    /\ pc = "start"
    /\ feature_map = <<>> /\ epsg = 0 /\ nfiles = 0 /\ nfeatures = 0 /\ i = 0
    /\ raster = None /\ pg = "none" /\ written = <<>> /\ log = <<>> /\ exitmsg = ""
    /\ hist = NoHist
    /\ WkbIdle

\* sys.exit(message): SystemExit, not an Exception
Exit(m) == pc' = "exit" /\ exitmsg' = m

\* an exception no handler catches: the run ends with a traceback
Crash(e) == pc' = "crash" /\ exitmsg' = e

\* lines 127-128
CheckInput ==
    /\ pc = "start"
    /\ IF (Given(args.geojson) /\ args.postgis) \/ (~Given(args.geojson) /\ ~args.postgis)
       THEN Exit("Input features to rasterize must be either GeoJSON or PostGIS")
       ELSE pc' = "setup" /\ UNCHANGED exitmsg
    /\ UNCHANGED <<wkbvars, args, feature_map, epsg, nfiles, nfeatures, i, raster, pg,
                   written, log, hist>>

\* lines 130-136 and Logs.__init__ (logs.py 8-19): the log file opens or the run ends
Setup ==
    /\ pc = "setup"
    /\ \E ok \in BOOLEAN :
         IF ok THEN pc' = (IF Given(args.geojson) THEN "cover" ELSE "connect") /\ UNCHANGED exitmsg
         ELSE Exit("Unable to write in logs directory")
    /\ UNCHANGED <<wkbvars, args, feature_map, epsg, nfiles, nfeatures, i, raster, pg,
                   written, log, hist>>

\* as AllCoverAtZoom, with any() for all()
AnyCoverAtZoom(cover, zoom) == \E k \in 1..Len(cover) : cover[k].z = zoom

\* line 167: all(tile.z == args.zoom for tile in tiles_from_csv(args.cover))
AllCoverAtZoom(cover, zoom) == \A k \in 1..Len(cover) : cover[k].z = zoom

\* lines 167-171
CheckCover ==
    /\ pc = "cover"
    /\ IF ~AllCoverAtZoom(args.cover, args.zoom)
       THEN /\ Exit("With GeoJson input, zoom level and cover tiles z values have to be the same.")
            /\ UNCHANGED epsg
       ELSE pc' = "files" /\ epsg' = DefaultEpsg /\ UNCHANGED exitmsg
    /\ UNCHANGED <<wkbvars, args, feature_map, nfiles, nfeatures, i, raster, pg, written, log,
                   hist>>

\* lines 173-175: the next file of args.geojson is opened, its EPSG code read
OpenFile ==
    /\ pc = "files"
    /\ nfiles < Len(args.geojson)
    /\ epsg' = args.geojson[nfiles + 1].epsg
    /\ nfiles' = nfiles + 1
    /\ pc' = "features"
    /\ UNCHANGED <<wkbvars, args, feature_map, nfeatures, i, raster, pg, written, log,
                   exitmsg, hist>>

\* enumerate(): the index of the next feature within the file being read
IndexInFile == Cardinality({k \in 1..Len(hist.feats) : hist.feats[k].file = nfiles})

\* Logs.log (logs.py 21-31) appends the lines or, when the write fails, ends the run
\* lines 176-182: one feature of the open file
ReadFeature ==
    /\ pc = "features"
    /\ nfeatures < MaxFeatures
    /\ \E g \in 1..Len(Geometries), logOk \in BOOLEAN :
         LET s0 == [fm |-> feature_map, src |-> hist.src, log |-> log,
                    zoom |-> args.zoom, cur |-> epsg]
             s1 == ParseFeature(s0, Geometries[g], IndexInFile)
         IN  /\ logOk \/ s1.log # log
             /\ IF logOk
                THEN /\ feature_map' = s1.fm
                     /\ log' = s1.log
                     /\ hist' = [hist EXCEPT !.src = s1.src,
                                             !.feats = Append(@, [geometry |-> Geometries[g],
                                                                  file |-> nfiles, epsg |-> epsg])]
                     /\ nfeatures' = nfeatures + 1
                     /\ pc' = "features"
                     /\ UNCHANGED exitmsg
                ELSE /\ Exit("Unable to write in logs file")
                     /\ UNCHANGED <<feature_map, log, hist, nfeatures>>
    /\ UNCHANGED <<wkbvars, args, epsg, nfiles, i, raster, pg, written>>

\* the features of the open file are exhausted
EndFile ==
    /\ pc = "features"
    /\ pc' = "files"
    /\ UNCHANGED <<wkbvars, args, feature_map, epsg, nfiles, nfeatures, i, raster, pg,
                   written, log, exitmsg, hist>>

\* the loop at line 173 ends
EndFiles ==
    /\ pc = "files"
    /\ nfiles = Len(args.geojson)
    /\ pc' = "rasterize"
    /\ i' = 1
    /\ UNCHANGED <<wkbvars, args, feature_map, epsg, nfiles, nfeatures, raster, pg,
                   written, log, exitmsg, hist>>

\* as write_tile, but a raster without a burnt pixel is not written
write_tile_SkipBlank(w, tile, out) ==
    IF out.kind = "ndarray" /\ \A k \in 1..Len(out.px) : out.px[k] = 0
    THEN w
    ELSE Append(w, [tile |-> tile, out |-> out])

\* write_tile(root, tile, colors, out), lines 113-122
write_tile(w, tile, out) == Append(w, [tile |-> tile, out |-> out])

\* lines 186-189
GeoOut(fm, tile, e) ==
    IF tile \in DOMAIN fm
    THEN geojson_tile_burn(tile, fm[tile], TileSize, BurnValue, e)
    ELSE Zeros2(TileSize, TileSize, "u1")

\* lines 185-191: one tile of the cover; a library call that raises
\* (reprojection, rasterization, image encoding) ends the run with a traceback
GeoTile ==
    /\ pc = "rasterize"
    /\ i <= Len(args.cover)
    /\ \E ok \in BOOLEAN :
         IF ok
         THEN /\ raster' = GeoOut(feature_map, args.cover[i], epsg)
              /\ written' = write_tile(written, args.cover[i], raster')
              /\ i' = i + 1
              /\ pc' = "rasterize"
              /\ UNCHANGED exitmsg
         ELSE Crash("rasterize or write_tile raised") /\ UNCHANGED <<raster, written, i>>
    /\ UNCHANGED <<wkbvars, args, feature_map, epsg, nfiles, nfeatures, pg, log, hist>>

\* the loop at line 185 ends
GeoDone ==
    /\ pc = "rasterize"
    /\ i > Len(args.cover)
    /\ pc' = "done"
    /\ UNCHANGED <<wkbvars, args, feature_map, epsg, nfiles, nfeatures, i, raster, pg,
                   written, log, exitmsg, hist>>

(***************************************************************************)
(* main: the PostGIS path (lines 193-249)                                  *)
(***************************************************************************)
\* What the database answers to one tile's query: pg.execute raises (a query
\* error, or the connection is lost), fetchone returns no row, or a row
\* whose first column is NULL or a WKB raster with the band flag bytes fbs.
\* A query error and a lost connection both raise from pg.execute; the lost
\* connection is the one kept.
Response(kind, fbs, bytes) == [kind |-> kind, fbs |-> fbs, bytes |-> bytes]
TileRaster(flag, enc, fbs) == WkbRaster(flag, enc, fbs, TileSize, TileSize, BurnValue)

Responses ==
    << Response("lost", <<>>, <<>>),
       Response("norow", <<>>, <<>>),
       Response("row", <<>>, <<>>),
       Response("row", <<4>>, TileRaster(1, "<", <<4>>)),
       Response("row", <<4, 4>>, TileRaster(1, "<", <<4, 4>>)),
       Response("row", <<132>>, TileRaster(1, "<", <<132>>)),
       Response("row", <<4, 5>>, TileRaster(1, "<", <<4, 5>>)),
       Response("row", <<4, 12>>, TileRaster(1, "<", <<4, 12>>)) >>

\* lines 195-199
Connect ==
    /\ pc = "connect"
    /\ \E ok \in BOOLEAN :
         IF ok THEN pg' = "open" /\ pc' = "srid" /\ UNCHANGED exitmsg
         ELSE Exit("Unable to connect PostgreSQL") /\ UNCHANGED pg
    /\ UNCHANGED <<wkbvars, args, feature_map, epsg, nfiles, nfeatures, i, raster, written,
                   log, hist>>

\* lines 201-205
RetrieveSrid ==
    /\ pc = "srid"
    /\ \E ok \in BOOLEAN :
         IF ok THEN pc' = "tiles" /\ i' = 1 /\ UNCHANGED exitmsg
         ELSE Exit("Unable to retrieve geometry SRID.") /\ UNCHANGED i
    /\ UNCHANGED <<wkbvars, args, feature_map, epsg, nfiles, nfeatures, raster, pg, written,
                   log, hist>>

\* as NewRaster, but the array is made once, before the first tile
NewRasterOnce(old) == IF old = None THEN Zeros2(TileSize, TileSize, "f8") ELSE old

\* line 210: raster = np.zeros((tile_size, tile_size)), at the top of every iteration
NewRaster(old) == Zeros2(TileSize, TileSize, "f8")

\* np.squeeze(a, axis=2): axis 2 must exist and have length 1
Squeeze2(a) ==
    IF a.kind = "ndarray" /\ Len(a.shape) = 3 /\ a.shape[3] = 1
    THEN [status |-> "return", exc |-> "",
          out |-> [kind |-> "ndarray", shape |-> <<a.shape[1], a.shape[2]>>,
                   dtype |-> a.dtype, px |-> a.px[1]]]
    ELSE [status |-> "raise", exc |-> "ValueError", out |-> None]

\* as RowTruthy, without the guard: the row is used whatever fetchone returned
RowTruthyAlways(resp) == TRUE

\* line 241, "if row": fetchone returns None when the result set is empty
RowTruthy(resp) == resp.kind # "norow"

\* lines 239-242 (row[0] of None would be a TypeError), the body of the try: what it ends in and the value of raster then
TryBody(resp, r0) ==
    IF resp.kind = "lost"
    THEN [status |-> "raise", exc |-> "psycopg2.Error", raster |-> r0]
    ELSE IF ~RowTruthy(resp) THEN [status |-> "return", exc |-> "", raster |-> r0]
    ELSE IF resp.kind = "norow" THEN [status |-> "raise", exc |-> "TypeError", raster |-> r0]
    ELSE LET d == wkb_to_numpy(Stream(resp.bytes))
             q == Squeeze2(d.out)
         IN  IF d.status # "return" THEN [status |-> d.status, exc |-> d.exc, raster |-> r0]
             ELSE IF q.status # "return" THEN [status |-> "raise", exc |-> q.exc, raster |-> r0]
             ELSE [status |-> "return", exc |-> "", raster |-> q.out]

\* "except Exception" (line 244) catches what is raised; SystemExit passes through
Caught(t) == t.status = "raise"

\* lines 207-249: one tile of the cover.  reconnOk: psycopg2.connect at line
\* 246 succeeds; logOk: Logs.log writes its line; writeOk: write_tile succeeds.
PgTile ==
    /\ pc = "tiles"
    /\ i <= Len(args.cover)
    /\ \E r \in 1..Len(Responses), reconnOk \in BOOLEAN, logOk \in BOOLEAN, writeOk \in BOOLEAN :
         LET tile == args.cover[i]
             resp == Responses[r]
             t    == TryBody(resp, NewRaster(raster))
             line == LogLine("Warning: Invalid geometries, skipping", "", tile, 0)
             h    == [tile |-> tile, kind |-> resp.kind, fbs |-> resp.fbs,
                      status |-> t.status, exc |-> t.exc]
         IN  /\ hist' = [hist EXCEPT !.tiles = Append(@, h)]
             /\ raster' = t.raster
             /\ IF t.status = "exit"
                THEN /\ Exit(t.exc)
                     /\ pg' = "open"
                     /\ reconnOk /\ logOk /\ writeOk
                     /\ UNCHANGED <<log, written, i>>
                ELSE IF Caught(t) /\ ~logOk
                THEN /\ Exit("Unable to write in logs file")
                     /\ pg' = (IF resp.kind = "lost" THEN "broken" ELSE "open")
                     /\ reconnOk /\ writeOk
                     /\ UNCHANGED <<log, written, i>>
                ELSE IF Caught(t) /\ ~reconnOk
                THEN /\ Crash("psycopg2.connect raised")
                     /\ log' = Append(log, line)
                     /\ pg' = (IF resp.kind = "lost" THEN "broken" ELSE "open")
                     /\ writeOk
                     /\ UNCHANGED <<written, i>>
                ELSE /\ log' = (IF Caught(t) THEN Append(log, line) ELSE log)
                     /\ pg' = "open"
                     /\ Caught(t) \/ (reconnOk /\ logOk)
                     /\ IF writeOk
                        THEN /\ written' = write_tile(written, tile, t.raster)
                             /\ i' = i + 1
                             /\ pc' = "tiles"
                             /\ UNCHANGED exitmsg
                        ELSE Crash("write_tile raised") /\ UNCHANGED <<written, i>>
    /\ UNCHANGED <<wkbvars, args, feature_map, epsg, nfiles, nfeatures>>

\* the loop at line 207 ends
PgDone ==
    /\ pc = "tiles"
    /\ i > Len(args.cover)
    /\ pc' = "done"
    /\ UNCHANGED <<wkbvars, args, feature_map, epsg, nfiles, nfeatures, i, raster, pg,
                   written, log, exitmsg, hist>>

Next ==
    \/ CheckInput \/ Setup
    \/ CheckCover \/ OpenFile \/ ReadFeature \/ EndFile \/ EndFiles \/ GeoTile \/ GeoDone
    \/ Connect \/ RetrieveSrid \/ PgTile \/ PgDone

Spec == Init /\ [][Next]_vars

(***************************************************************************)
(* The properties                                                          *)
(***************************************************************************)
GeoRun == Given(args.geojson) /\ ~args.postgis
PgRun  == ~Given(args.geojson) /\ args.postgis

CoverSet == {args.cover[k] : k \in 1..Len(args.cover)}

\* the warning lines of the PostGIS tile loop that name tile t
Warnings(t) ==
    {j \in 1..Len(log) : log[j].msg = "Warning: Invalid geometries, skipping" /\ log[j].tile = t}

\* the tiles among the first k processed by the PostGIS loop that are t and
\* whose try body raised an ordinary exception
Failures(t, k) ==
    {j \in 1..k : hist.tiles[j].tile = t /\ hist.tiles[j].status = "raise"}

\* C1: when main gets to the end of its tile loop, the images written are
\* those of the cover, one per cover entry and in cover order, whether or not
\* the feature map holds the tile; and at no time is an image written for a
\* tile outside the cover (such as a tile that is only a key of the feature map).
C1_WrittenIsCover ==
    /\ pc = "done" =>
         /\ Len(written) = Len(args.cover)
         /\ \A k \in 1..Len(written) : written[k].tile = args.cover[k]
         /\ {written[k].tile : k \in 1..Len(written)} = CoverSet
    /\ \A k \in 1..Len(written) : written[k].tile \in CoverSet

\* a GeoJSON run that ended with a cover tile the feature map lacks and a
\* feature-map key the cover lacks
C1_Witness ==
    /\ pc = "done" /\ GeoRun
    /\ \E t \in CoverSet : t \notin DOMAIN feature_map
    /\ \E t \in DOMAIN feature_map : t \notin CoverSet

\* C2: in the PostGIS path, a tile whose query, fetch or decoding raised an
\* ordinary exception is written as an all-zero tile_size x tile_size raster
\* and has its own warning line in the log, whatever tiles came before it.
C2_FailedTileIsBlank ==
    PgRun =>
      \A k \in 1..Len(written) :
        hist.tiles[k].status = "raise" =>
          /\ written[k].tile = hist.tiles[k].tile
          /\ IsZeros(written[k].out, TileSize)
          /\ Cardinality(Warnings(written[k].tile)) >= Cardinality(Failures(written[k].tile, k))

\* a failed tile written right after a tile whose raster had burnt pixels
C2_Witness ==
    /\ PgRun
    /\ \E k \in 2..Len(written) :
         /\ hist.tiles[k].status = "raise"
         /\ hist.tiles[k - 1].status = "return"
         /\ ~IsZeros(written[k - 1].out, TileSize)
         /\ written[k - 1].tile # written[k].tile

\* C3: in the PostGIS path a per-tile failure never aborts the run: when a
\* tile's try body raised, and neither the log nor write_tile failed, the run
\* goes on (it is not ended by the attempt to connect again).
C3_TileFailureNeverAborts ==
    (PgRun /\ \E k \in 1..Len(hist.tiles) : hist.tiles[k].status = "raise")
      => \/ pc \in {"tiles", "done"}
         \/ exitmsg \in {"Unable to write in logs file", "write_tile raised"}

\* C4 as stated: a tile whose query returned no row is written blank and
\* has a warning line in the log.
C4_NoRowLogsWarning ==
    PgRun =>
      \A k \in 1..Len(written) :
        hist.tiles[k].kind = "norow" =>
          /\ IsZeros(written[k].out, TileSize)
          /\ Warnings(written[k].tile) # {}

\* C4 amended: a tile whose query returned no row raises nothing and gets no
\* warning line of its own (the log holds no more warnings naming a tile than
\* that tile had failures); it is written as an all-zero raster and, unless
\* write_tile itself raises, the loop goes on to the next tile.
C4_NoRowIsSilentBlank ==
    PgRun =>
      /\ \A k \in 1..Len(hist.tiles) :
           hist.tiles[k].kind = "norow" =>
             /\ hist.tiles[k].status = "return"
             /\ Cardinality(Warnings(hist.tiles[k].tile))
                  <= Cardinality(Failures(hist.tiles[k].tile, Len(hist.tiles)))
             /\ k <= Len(written) => /\ written[k].tile = hist.tiles[k].tile
                                     /\ IsZeros(written[k].out, TileSize)
             /\ k > Len(written) => pc = "crash" /\ exitmsg = "write_tile raised"

\* a no-row tile written blank with no line logged, and the tile after it written too
C4_Witness ==
    /\ PgRun
    /\ \E k \in 1..Len(written) :
         /\ hist.tiles[k].kind = "norow"
         /\ Warnings(written[k].tile) = {}
         /\ Len(written) > k

\* some band has bit 7 set, or a pixel-type code other than band 0's
BadBands(fbs) == \E b \in 1..Len(fbs) : fbs[b] >= 128 \/ fbs[b] % 16 # fbs[1] % 16

\* C5: a WKB raster with an out-of-line band, or with a band whose low four
\* bits differ from band 0's, ends the whole run (sys.exit): the tile loop
\* does not go on after it, and never writes a tile for it.  (A run that the
\* log, write_tile or psycopg2.connect ended is not held against the claim.)
C5_BadBandsAbortRun ==
    PgRun =>
      \A k \in 1..Len(hist.tiles) :
        (hist.tiles[k].kind = "row" /\ BadBands(hist.tiles[k].fbs)) =>
          /\ exitmsg \notin {"Unable to write in logs file", "write_tile raised",
                          "psycopg2.connect raised"}
               => hist.tiles[k].status = "exit" /\ pc = "exit"
          /\ Len(written) < k

\* C6: wkb_to_numpy returns None, raising nothing, when its argument is None
\* or a stream that holds no byte.
C6_EmptyOrAbsentReturnsNone ==
    (wpc = "done" /\ (wkb.isNone \/ wkb.bytes = <<>>))
      => dec.status = "return" /\ dec.out = None

\* C8: the first byte selects the byte order of the header: 0 is big-endian,
\* anything else little-endian, and band count, width and height are read so.
C8_FlagSelectsByteOrder ==
    (wpc \in {"loop", "done"} /\ ~wkb.isNone /\ Len(wkb.bytes) >= 61) =>
      LET order == IF wkb.bytes[1] = 0 THEN ">" ELSE "<"
          field(a, b) == IF order = ">" THEN 256 * wkb.bytes[a] + wkb.bytes[b]
                                        ELSE wkb.bytes[a] + 256 * wkb.bytes[b]
      IN  /\ dec.endian = order
          /\ dec.bands  = field(4, 5)
          /\ dec.width  = field(58, 59)
          /\ dec.height = field(60, 61)

\* C7: with GeoJSON input and a cover tile whose z is not the zoom, main never
\* gets past the check of line 167: no feature is read, no feature map is
\* built, no image is written; so an image written in the GeoJSON path means
\* every cover tile is at the zoom.
C7_ZoomMismatchAbortsFirst ==
    /\ (Given(args.geojson) /\ \E k \in 1..Len(args.cover) : args.cover[k].z # args.zoom)
         => /\ pc \in {"start", "setup", "cover", "exit"}
            /\ nfiles = 0 /\ hist.feats = <<>> /\ feature_map = <<>> /\ written = <<>>
    /\ (Given(args.geojson) /\ written # <<>>)
         => \A k \in 1..Len(args.cover) : args.cover[k].z = args.zoom

\* the run ended at line 168 on a cover holding a tile at the zoom and one that is not
C7_Witness ==
    /\ pc = "exit"
    /\ exitmsg = "With GeoJson input, zoom level and cover tiles z values have to be the same."
    /\ \E k \in 1..Len(args.cover) : args.cover[k].z = args.zoom
    /\ \E k \in 1..Len(args.cover) : args.cover[k].z # args.zoom

\* the Polygons a geometry holds at any depth (MultiPolygon members included)
RECURSIVE AllPolygons(_)
RECURSIVE AllPolygonsOf(_)
AllPolygonsOf(gs) == IF gs = <<>> THEN <<>> ELSE AllPolygons(Head(gs)) \o AllPolygonsOf(Tail(gs))
AllPolygons(g) ==
    IF g.type = "Polygon" THEN <<g>>
    ELSE IF g.type = "MultiPolygon"
         THEN [k \in 1..Len(g.coordinates) |-> Polygon(g.coordinates[k])]
    ELSE IF g.type = "GeometryCollection" THEN AllPolygonsOf(g.geometries)
    ELSE <<>>

\* C9: every Polygon a feature read so far holds, at whatever depth of
\* GeometryCollection, is in the feature map under each tile it touches.
C9_NestedPolygonsIndexed ==
    GeoRun =>
      \A f \in 1..Len(hist.feats) :
        LET ps == AllPolygons(hist.feats[f].geometry) IN
        \A k \in 1..Len(ps) :
          LET norm == [ps[k] EXCEPT !.coordinates = Normalize(ps[k].coordinates)] IN
          ~BurnRaises(norm) =>
            \A t \in Burn(norm, args.zoom) :
              /\ t \in DOMAIN feature_map
              /\ \E j \in 1..Len(feature_map[t]) : feature_map[t][j] = Feature(norm)

\* C10: every shape burnt into a written tile was reprojected from the EPSG
\* code of the file its feature was read from.
C10_OwnFileEpsg ==
    GeoRun =>
      \A k \in 1..Len(written) :
        written[k].out.kind = "rasterize" =>
          \A j \in 1..Len(written[k].out.px.shapes) :
            written[k].out.px.shapes[j].geometry.from_epsg = hist.src[written[k].tile][j]

====
